---- MODULE Spec2Model ----
(***************************************************************************)
(* ompl::base::StateValidityChecker (src/ompl/base/StateValidityChecker.h) *)
(*                                                                         *)
(* The checker is a polymorphic object: one pure virtual isValid(state)    *)
(* and four virtual operations whose default bodies call the simpler       *)
(* ones.  A checker is modelled by the set of virtuals its class           *)
(* overrides; virtual dispatch is the IF on that record.  A State is       *)
(* opaque to the checker; here it is identified by its distance to the     *)
(* origin, the only thing an overriding body below looks at.  Doubles are  *)
(* integers (every value the code produces here is a difference of two     *)
(* small integers or the literal 0.0).                                     *)
(***************************************************************************)
EXTENDS Integers, FiniteSets, Sequences, TLC

\* ---------------------------------------------------------------- bounds
MaxNorm == 7          \* states are at distance 0..MaxNorm from the origin
NumThreads == 2       \* concurrent callers of one checker instance
MaxCalls == 2         \* calls counted in a sequential run before the count saturates

\* the radius used by the overriding clearance bodies (5.0 - ||s||)
Radius == 5

States == 0..MaxNorm
Threads == 1..NumThreads

\* values a caller's output slots may hold before a call
StaleDists == {-9, 9}
StaleGradients == {"stale", "zero"}
UnitGradient == "unit"

\* ------------------------------------------------- StateValidityCheckerSpecs
\* variant: the constructor leaves one flag set
SpecsDefaultGradientSet ==
    [hasExactClearance |-> FALSE, hasBoundedApproximateClearance |-> FALSE,
     hasApproximateClearance |-> FALSE, hasGradientComputation |-> TRUE]

\* StateValidityCheckerSpecs(void): all four flags false
SpecsDefault ==
    [hasExactClearance |-> FALSE, hasBoundedApproximateClearance |-> FALSE,
     hasApproximateClearance |-> FALSE, hasGradientComputation |-> FALSE]

\* --------------------------------------------------------------- checkers
\* class AllValidStateValidityChecker: overrides isValid(state) only
AllValidStateValidityChecker ==
    [isValid |-> "AllValid", clearance |-> "default",
     clearanceGrad |-> "default", specAssign |-> "none"]

\* classes derived from StateValidityChecker by a user: which virtuals they
\* override and whether their constructor assigns a flag of specs_
DerivedCheckers ==
    [isValid : {"InsideRadius", "ByClearance"},
     clearance : {"default", "RadiusMinusNorm"},
     clearanceGrad : {"default", "UnitGradient", "GradientOffOrigin"},
     specAssign : {"none", "gradient"}]

Checkers == {AllValidStateValidityChecker} \cup DerivedCheckers

\* the user's body of clearance(state): 5.0 - ||s||
ClearanceOverride(c, s) == Radius - s

\* variant: the base body reports a penetration depth instead of 0.0
ClearanceBaseNonZero(c, s) ==
    IF c.clearance = "default" THEN 0 - 1 ELSE ClearanceOverride(c, s)

\* virtual double clearance(const State*) const, dispatched; base body: return 0.0
Clearance(c, s) ==
    IF c.clearance = "default" THEN 0 ELSE ClearanceOverride(c, s)

\* the user's body of isValid(state)
IsValidOverride(c, s) ==
    IF c.isValid = "ByClearance" THEN Clearance(c, s) >= 0 ELSE s <= Radius

\* variant: the trivial checker looks at its argument
AllValidIsValidBounded(s) == s <= Radius

\* AllValidStateValidityChecker::isValid(const State*): return true
AllValidIsValid(s) == TRUE

\* virtual bool isValid(const State*) const = 0, dispatched
IsValid(c, s) ==
    IF c.isValid = "AllValid" THEN AllValidIsValid(s) ELSE IsValidOverride(c, s)

\* the user's body of clearance(state, gradient, gradientAvailable): the
\* distance is 5.0 - ||s||; a unit gradient is written and flagged available
\* (for "GradientOffOrigin" only where a direction exists, away from the origin)
ClearanceGradOverride(c, s, gradient, gradientAvailable) ==
    IF c.clearanceGrad = "UnitGradient" \/ s # 0
    THEN [ret |-> Radius - s, gradient |-> UnitGradient, gradientAvailable |-> TRUE]
    ELSE [ret |-> Radius - s, gradient |-> gradient, gradientAvailable |-> FALSE]

\* variant: the base body forgets to clear the flag
ClearanceGradDefaultFlagKept(c, s, gradient, gradientAvailable) ==
    [ret |-> Clearance(c, s), gradient |-> gradient,
     gradientAvailable |-> gradientAvailable]

\* variant: the base body zeroes the gradient it cannot compute
ClearanceGradDefaultZeroes(c, s, gradient, gradientAvailable) ==
    [ret |-> Clearance(c, s), gradient |-> "zero", gradientAvailable |-> FALSE]

\* StateValidityChecker::clearance(state, gradient, gradientAvailable), base body
ClearanceGradDefault(c, s, gradient, gradientAvailable) ==
    [ret |-> Clearance(c, s), gradient |-> gradient, gradientAvailable |-> FALSE]

\* virtual double clearance(const State*, State*, bool&) const, dispatched
ClearanceGrad(c, s, gradient, gradientAvailable) ==
    IF c.clearanceGrad = "default"
    THEN ClearanceGradDefault(c, s, gradient, gradientAvailable)
    ELSE ClearanceGradOverride(c, s, gradient, gradientAvailable)

\* variant: dist is never assigned
IsValidDistNoAssign(c, s, dist) ==
    [ret |-> IsValid(c, s), dist |-> dist]

\* variant: dist is taken from the gradient-accepting clearance
IsValidDistViaGrad(c, s, dist) ==
    [ret |-> IsValid(c, s), dist |-> ClearanceGrad(c, s, "stale", FALSE).ret]

\* virtual bool isValid(const State*, double &dist) const
IsValidDist(c, s, dist) ==
    [ret |-> IsValid(c, s), dist |-> Clearance(c, s)]

\* variant: the four-output overload calls the single-argument clearance
IsValidGradPlainClearance(c, s, dist, gradient, gradientAvailable) ==
    [ret |-> IsValid(c, s), dist |-> Clearance(c, s),
     gradient |-> gradient, gradientAvailable |-> gradientAvailable]

\* virtual bool isValid(const State*, double &dist, State *gradient, bool &gradientAvailable) const
IsValidGrad(c, s, dist, gradient, gradientAvailable) ==
    LET r == ClearanceGrad(c, s, gradient, gradientAvailable)
    IN  [ret |-> IsValid(c, s), dist |-> r.ret,
         gradient |-> r.gradient, gradientAvailable |-> r.gradientAvailable]

\* the derived constructor's assignment to the protected member specs_
ConstructSpecs(c) ==
    IF c.specAssign = "gradient"
    THEN [SpecsDefault EXCEPT !.hasGradientComputation = TRUE]
    ELSE SpecsDefault

\* ------------------------------------------------------------------ state
VARIABLES
    checker,    \* the dynamic type of the instance (fixed at construction)
    si_,        \* SpaceInformation* si_
    specs_,     \* StateValidityCheckerSpecs specs_
    ncalls,     \* calls completed by the sequential caller (saturating)
    last,       \* the sequential caller's last call: arguments, slots before and after
    frames      \* per thread: the call in progress, its position and its own slots

vars == <<checker, si_, specs_, ncalls, last, frames>>

Contexts == {"si1", "si2"}

Bump(n) == IF n < MaxCalls THEN n + 1 ELSE n

\* state after construction of a checker bound to a context
Init ==
    /\ checker \in Checkers
    /\ si_ \in Contexts
    /\ specs_ = ConstructSpecs(checker)
    /\ ncalls = 0
    /\ last = [op |-> "none"]
    /\ frames = [t \in Threads |-> [pc |-> "idle"]]

\* ------------------------------------------ sequential caller, whole calls
CallIsValid(s) ==
    /\ last' = [op |-> "isValid", state |-> s, ret |-> IsValid(checker, s)]
    /\ ncalls' = Bump(ncalls)
    /\ UNCHANGED <<checker, si_, specs_, frames>>

CallIsValidDist(s, d0) ==
    /\ LET r == IsValidDist(checker, s, d0)
       IN  last' = [op |-> "isValidDist", state |-> s, dist0 |-> d0,
                    ret |-> r.ret, dist |-> r.dist]
    /\ ncalls' = Bump(ncalls)
    /\ UNCHANGED <<checker, si_, specs_, frames>>

CallIsValidGrad(s, d0, g0, a0) ==
    /\ LET r == IsValidGrad(checker, s, d0, g0, a0)
       IN  last' = [op |-> "isValidGrad", state |-> s, dist0 |-> d0,
                    gradient0 |-> g0, avail0 |-> a0,
                    ret |-> r.ret, dist |-> r.dist, gradient |-> r.gradient,
                    gradientAvailable |-> r.gradientAvailable]
    /\ ncalls' = Bump(ncalls)
    /\ UNCHANGED <<checker, si_, specs_, frames>>

CallClearance(s) ==
    /\ last' = [op |-> "clearance", state |-> s, val |-> Clearance(checker, s)]
    /\ ncalls' = Bump(ncalls)
    /\ UNCHANGED <<checker, si_, specs_, frames>>

CallClearanceGrad(s, g0, a0) ==
    /\ LET r == ClearanceGrad(checker, s, g0, a0)
       IN  last' = [op |-> "clearanceGrad", state |-> s,
                    gradient0 |-> g0, avail0 |-> a0,
                    val |-> r.ret, gradient |-> r.gradient,
                    gradientAvailable |-> r.gradientAvailable]
    /\ ncalls' = Bump(ncalls)
    /\ UNCHANGED <<checker, si_, specs_, frames>>

\* const StateValidityCheckerSpecs& getSpecs(void) const
GetSpecs == specs_

CallGetSpecs ==
    /\ last' = [op |-> "getSpecs", specs |-> GetSpecs]
    /\ ncalls' = Bump(ncalls)
    /\ UNCHANGED <<checker, si_, specs_, frames>>

Next ==
    \/ \E s \in States : CallIsValid(s)
    \/ \E s \in States, d0 \in StaleDists : CallIsValidDist(s, d0)
    \/ \E s \in States, d0 \in StaleDists, g0 \in StaleGradients,
          a0 \in BOOLEAN : CallIsValidGrad(s, d0, g0, a0)
    \/ \E s \in States : CallClearance(s)
    \/ \E s \in States, g0 \in StaleGradients, a0 \in BOOLEAN :
          CallClearanceGrad(s, g0, a0)
    \/ CallGetSpecs

Spec == Init /\ [][Next]_vars

\* ------------------------------- concurrent callers, one statement per step
\* states presented by concurrent callers: the last valid and the first
\* invalid distance of the radius-based bodies
BoundaryStates == {Radius, Radius + 1}

\* what a concurrent caller's own output slots hold when it starts a call
FreshSlots == [dist |-> 9, gradient |-> "stale", gradientAvailable |-> TRUE]

Idle(t) == frames[t].pc = "idle"

NewFrame(op, pc, s) ==
    [pc |-> pc, op |-> op, state |-> s, ret |-> FALSE,
     dist |-> FreshSlots.dist, gradient |-> FreshSlots.gradient,
     gradientAvailable |-> FreshSlots.gradientAvailable]

\* a thread enters isValid(state)
BeginIsValid(t, s) ==
    /\ Idle(t)
    /\ frames' = [frames EXCEPT ![t] = NewFrame("isValid", "L124", s)]
    /\ UNCHANGED <<checker, si_, specs_, ncalls, last>>

\* a thread enters isValid(state, dist)
BeginIsValidDist(t, s) ==
    /\ Idle(t)
    /\ frames' = [frames EXCEPT ![t] = NewFrame("isValidDist", "L114", s)]
    /\ UNCHANGED <<checker, si_, specs_, ncalls, last>>

\* a thread enters isValid(state, dist, gradient, gradientAvailable); the
\* call at line 123 dispatches to the base body (line 139) or to the
\* overriding body
BeginIsValidGrad(t, s) ==
    /\ Idle(t)
    /\ frames' = [frames EXCEPT ![t] = NewFrame("isValidGrad", "L123", s)]
    /\ UNCHANGED <<checker, si_, specs_, ncalls, last>>

\* variant: dist is kept in a member shared by every call in progress
StepL114Shared(t) ==
    /\ frames[t].pc = "L114"
    /\ frames' = [u \in Threads |->
                    IF u = t
                    THEN [frames[t] EXCEPT !.dist = Clearance(checker, frames[t].state),
                                           !.pc = "L124"]
                    ELSE IF frames[u].pc = "idle" THEN frames[u]
                    ELSE [frames[u] EXCEPT !.dist = Clearance(checker, frames[t].state)]]
    /\ UNCHANGED <<checker, si_, specs_, ncalls, last>>

\* line 114: dist = clearance(state)
StepL114(t) ==
    /\ frames[t].pc = "L114"
    /\ frames' = [frames EXCEPT ![t].dist = Clearance(checker, frames[t].state),
                                ![t].pc = "L124"]
    /\ UNCHANGED <<checker, si_, specs_, ncalls, last>>

\* line 123 with clearance(state, gradient, gradientAvailable) overridden:
\* the overriding body runs and its return value is stored in dist
StepL123Override(t) ==
    /\ frames[t].pc = "L123"
    /\ checker.clearanceGrad # "default"
    /\ LET f == frames[t]
           r == ClearanceGradOverride(checker, f.state, f.gradient, f.gradientAvailable)
       IN  frames' = [frames EXCEPT ![t].dist = r.ret,
                                    ![t].gradient = r.gradient,
                                    ![t].gradientAvailable = r.gradientAvailable,
                                    ![t].pc = "L124"]
    /\ UNCHANGED <<checker, si_, specs_, ncalls, last>>

\* line 123 entering the base body, line 139: gradientAvailable = false
StepL139(t) ==
    /\ frames[t].pc = "L123"
    /\ checker.clearanceGrad = "default"
    /\ frames' = [frames EXCEPT ![t].gradientAvailable = FALSE, ![t].pc = "L140"]
    /\ UNCHANGED <<checker, si_, specs_, ncalls, last>>

\* line 140: return clearance(state), stored in dist by line 123
StepL140(t) ==
    /\ frames[t].pc = "L140"
    /\ frames' = [frames EXCEPT ![t].dist = Clearance(checker, frames[t].state),
                                ![t].pc = "L124"]
    /\ UNCHANGED <<checker, si_, specs_, ncalls, last>>

\* lines 115 and 124, and the pure virtual call itself: return isValid(state)
StepReturnIsValid(t) ==
    /\ frames[t].pc = "L124"
    /\ frames' = [frames EXCEPT ![t].ret = IsValid(checker, frames[t].state),
                                ![t].pc = "done"]
    /\ UNCHANGED <<checker, si_, specs_, ncalls, last>>

\* the caller has read its results and is ready for another call
Finish(t) ==
    /\ frames[t].pc = "done"
    /\ frames' = [frames EXCEPT ![t] = [pc |-> "idle"]]
    /\ UNCHANGED <<checker, si_, specs_, ncalls, last>>

NextConc ==
    \/ \E t \in Threads, s \in BoundaryStates : BeginIsValid(t, s)
    \/ \E t \in Threads, s \in BoundaryStates : BeginIsValidDist(t, s)
    \/ \E t \in Threads, s \in BoundaryStates : BeginIsValidGrad(t, s)
    \/ \E t \in Threads : StepL114(t)
    \/ \E t \in Threads : StepL123Override(t)
    \/ \E t \in Threads : StepL139(t)
    \/ \E t \in Threads : StepL140(t)
    \/ \E t \in Threads : StepReturnIsValid(t)
    \/ \E t \in Threads : Finish(t)

SpecConc == Init /\ [][NextConc]_vars

\* ----------------------------------------------------------------- claims
OnlyIsValidOverridden(c) == c.clearance = "default" /\ c.clearanceGrad = "default"

Scenario2(c) == c.isValid = "ByClearance" /\ c.clearance = "RadiusMinusNorm"

AllFlagsFalse(sp) ==
    /\ sp.hasExactClearance = FALSE
    /\ sp.hasBoundedApproximateClearance = FALSE
    /\ sp.hasApproximateClearance = FALSE
    /\ sp.hasGradientComputation = FALSE

\* C1: the two-output isValid(s, dist) returns the boolean of isValid(s) and
\* sets dist to the checker's clearance(s); with clearance(s) = 5 - ||s|| and
\* isValid(s) = (clearance(s) >= 0), distance 3 gives (true, 2) and distance 7
\* gives (false, -2).
C1_IsValidDistIsClearanceThenIsValid ==
    last.op = "isValidDist" =>
        /\ last.ret = IsValid(checker, last.state)
        /\ last.dist = Clearance(checker, last.state)
        /\ (Scenario2(checker) /\ last.state = 3) => (last.ret = TRUE /\ last.dist = 2)
        /\ (Scenario2(checker) /\ last.state = 7) => (last.ret = FALSE /\ last.dist = 0 - 2)

C1_Witness ==
    /\ last.op = "isValidDist"
    /\ Scenario2(checker)
    /\ last.state = 7
    /\ last.ret = FALSE
    /\ last.dist = 0 - 2

\* C2: the four-output isValid returns the boolean of isValid(s) and surfaces
\* exactly the distance, gradient and flag of clearance(s, gradient,
\* gradientAvailable): a unit gradient with flag true when that clearance writes
\* one, flag false and dist = clearance(s) when only isValid is overridden.
C2_IsValidGradSurfacesClearanceGrad ==
    last.op = "isValidGrad" =>
        LET r == ClearanceGrad(checker, last.state, last.gradient0, last.avail0)
        IN  /\ last.ret = IsValid(checker, last.state)
            /\ last.dist = r.ret
            /\ last.gradient = r.gradient
            /\ last.gradientAvailable = r.gradientAvailable
            /\ checker.clearanceGrad = "UnitGradient" =>
                   (last.gradient = UnitGradient /\ last.gradientAvailable = TRUE)
            /\ OnlyIsValidOverridden(checker) =>
                   (last.gradientAvailable = FALSE
                    /\ last.dist = Clearance(checker, last.state))

C2_Witness ==
    /\ last.op = "isValidGrad"
    /\ checker.clearanceGrad = "UnitGradient"
    /\ checker.clearance = "default"
    /\ last.avail0 = FALSE
    /\ last.gradient0 = "stale"
    /\ last.gradient = UnitGradient
    /\ last.gradientAvailable = TRUE
    /\ last.dist = Radius - last.state

\* C3: for the trivial all-valid checker every isValid overload returns true
\* for every state, reported distances are 0.0, gradientAvailable is false and
\* both clearance overloads return 0.0.
C3_AllValidDefaults ==
    checker = AllValidStateValidityChecker =>
        /\ last.op \in {"isValid", "isValidDist", "isValidGrad"} => last.ret = TRUE
        /\ last.op \in {"isValidDist", "isValidGrad"} => last.dist = 0
        /\ last.op \in {"isValidGrad", "clearanceGrad"} => last.gradientAvailable = FALSE
        /\ last.op \in {"clearance", "clearanceGrad"} => last.val = 0

C3_Witness ==
    /\ checker = AllValidStateValidityChecker
    /\ last.op = "isValidGrad"
    /\ last.state > Radius
    /\ last.avail0 = TRUE
    /\ last.ret = TRUE
    /\ last.dist = 0
    /\ last.gradientAvailable = FALSE

\* C4: for a checker overriding only the single-argument isValid, clearance(s)
\* returns 0.0 and clearance(s, gradient, gradientAvailable) returns 0.0 with
\* gradientAvailable false, for valid and invalid states alike.
C4_DefaultClearanceIsZero ==
    OnlyIsValidOverridden(checker) =>
        /\ last.op = "clearance" => last.val = 0
        /\ last.op = "clearanceGrad" => (last.val = 0 /\ last.gradientAvailable = FALSE)

C4_Witness ==
    /\ OnlyIsValidOverridden(checker)
    /\ last.op = "clearanceGrad"
    /\ ~IsValid(checker, last.state)
    /\ last.avail0 = TRUE
    /\ last.val = 0
    /\ last.gradientAvailable = FALSE

\* C5: for a checker overriding clearance(s) but not the gradient-accepting
\* clearance, the latter returns the overridden clearance(s) value and sets
\* gradientAvailable to false whatever the flag held before.
C5_ClearanceGradFallsBackToClearance ==
    (last.op = "clearanceGrad" /\ checker.clearance = "RadiusMinusNorm"
        /\ checker.clearanceGrad = "default") =>
        /\ last.val = ClearanceOverride(checker, last.state)
        /\ last.gradientAvailable = FALSE

C5_Witness ==
    /\ last.op = "clearanceGrad"
    /\ checker.clearance = "RadiusMinusNorm"
    /\ checker.clearanceGrad = "default"
    /\ last.avail0 = TRUE
    /\ last.state = 7
    /\ last.val = 0 - 2
    /\ last.gradientAvailable = FALSE

\* C6: for a checker whose constructor assigns no flag, the descriptor and
\* whatever getSpecs() returns have all four flags false, after construction
\* and after any sequence of calls.
C6_SpecsStayAllFalse ==
    checker.specAssign = "none" =>
        /\ AllFlagsFalse(specs_)
        /\ last.op = "getSpecs" => AllFlagsFalse(last.specs)

C6_Witness ==
    /\ checker.specAssign = "none"
    /\ checker.clearanceGrad = "UnitGradient"
    /\ ncalls >= 2
    /\ last.op = "getSpecs"
    /\ AllFlagsFalse(last.specs)

\* C7: every call that completes while other calls are in progress on the
\* same instance has the results the same call gives when run alone.
C7_ConcurrentResultsAreSequential ==
    \A t \in Threads :
        frames[t].pc = "done" =>
            LET f == frames[t]
                seq == IsValidGrad(checker, f.state, FreshSlots.dist,
                                   FreshSlots.gradient, FreshSlots.gradientAvailable)
            IN  /\ f.ret = IsValid(checker, f.state)
                /\ f.op = "isValid" =>
                       /\ f.dist = FreshSlots.dist
                       /\ f.gradient = FreshSlots.gradient
                       /\ f.gradientAvailable = FreshSlots.gradientAvailable
                /\ f.op = "isValidDist" =>
                       /\ f.dist = IsValidDist(checker, f.state, FreshSlots.dist).dist
                       /\ f.gradient = FreshSlots.gradient
                       /\ f.gradientAvailable = FreshSlots.gradientAvailable
                /\ f.op = "isValidGrad" =>
                       /\ f.dist = seq.dist
                       /\ f.gradient = seq.gradient
                       /\ f.gradientAvailable = seq.gradientAvailable

C7_Witness ==
    \E t, u \in Threads :
        /\ t # u
        /\ frames[t].pc = "done" /\ frames[u].pc = "done"
        /\ frames[t].state # frames[u].state
        /\ frames[t].op = "isValidDist" /\ frames[u].op = "isValidGrad"
        /\ frames[t].ret # frames[u].ret
        /\ frames[t].dist # frames[u].dist

\* C8 as stated: the distance of clearance(s) and of the two-output isValid
\* agrees in sign with validity, for every checker and state.
C8_Original_DistanceSignIsValidity ==
    /\ last.op = "clearance" => ((last.val >= 0) <=> IsValid(checker, last.state))
    /\ last.op = "isValidDist" => ((last.dist >= 0) <=> last.ret)

\* C8 amended: when isValid(s) is defined as clearance(s) >= 0 the reported
\* distance agrees in sign with validity; when clearance(s) is not overridden
\* the reported distance is 0.0 for valid and invalid states alike.
C8_DistanceSignWhenDerivedFromClearance ==
    /\ (last.op = "isValidDist" /\ checker.isValid = "ByClearance") =>
           ((last.dist >= 0) <=> last.ret)
    /\ (last.op = "clearance" /\ checker.isValid = "ByClearance") =>
           ((last.val >= 0) <=> IsValid(checker, last.state))
    /\ (last.op = "isValidDist" /\ checker.clearance = "default") => last.dist = 0
    /\ (last.op = "clearance" /\ checker.clearance = "default") => last.val = 0

C8_Witness ==
    /\ last.op = "isValidDist"
    /\ checker.isValid = "InsideRadius"
    /\ checker.clearance = "default"
    /\ last.ret = FALSE
    /\ last.dist = 0

\* C9: when the four-output isValid or the gradient-accepting clearance
\* returns with gradientAvailable false, the gradient slot holds what it held
\* before the call; the base bodies never write the slot.
C9_GradientWrittenOnlyWhenAvailable ==
    last.op \in {"isValidGrad", "clearanceGrad"} =>
        /\ last.gradientAvailable = FALSE => last.gradient = last.gradient0
        /\ checker.clearanceGrad = "default" => last.gradient = last.gradient0

C9_Witness ==
    /\ last.op = "isValidGrad"
    /\ checker.clearanceGrad = "default"
    /\ last.gradient0 = "stale"
    /\ last.avail0 = TRUE
    /\ last.gradientAvailable = FALSE
    /\ last.gradient = "stale"

\* C10: when the gradient-accepting clearance is overridden and clearance(s)
\* is not, the two-output isValid reports dist 0.0 for every state while the
\* four-output isValid reports the overriding body's distance.
C10_IsValidDistIgnoresClearanceGrad ==
    (checker.clearanceGrad # "default" /\ checker.clearance = "default") =>
        /\ last.op = "isValidDist" => last.dist = 0
        /\ last.op = "isValidGrad" => last.dist = Radius - last.state

C10_Witness ==
    /\ checker.clearanceGrad # "default"
    /\ checker.clearance = "default"
    /\ checker.isValid = "InsideRadius"
    /\ last.op = "isValidDist"
    /\ last.state = 7
    /\ last.dist = 0
    /\ ClearanceGrad(checker, last.state, "stale", FALSE).ret = 0 - 2

====
